---- MODULE Spec2Model ----
(***************************************************************************)
(* Model of source/lambda/schedulers/ecs_service.py (class EcsService):    *)
(* the stop/start generators with their tag reconciliation, run against a  *)
(* model of the ECS control plane (desired counts and resource tags); the  *)
(* discovery of the schedulable services; the validation of tag values;    *)
(* the schedule built from a maintenance window; the cached tag lookup.    *)
(*                                                                         *)
(* Strings that the code inspects character by character (tag values) are  *)
(* sequences of one-character strings; tag keys and ARNs are atoms.        *)
(***************************************************************************)
EXTENDS Integers, Sequences, FiniteSets, TLC

VARIABLES
    svc,            \* provider: service ARN -> [clusterArn, desiredCount, tags]
    config,         \* self._config: [started_tags, stopped_tags]
    gen,            \* the generator object of stop_instances / start_instances
    results,        \* the (id, state) pairs the generator has yielded so far
    calls,          \* the update_service / untag_resource / tag_resource calls
                    \* issued by the current generator, in issue order
    logs,           \* self._logger records written by the current generator
    hist_captured,  \* history: per service, {n} when its latest transition was
                    \* a stop of a snapshot with desired count n whose tag
                    \* call the provider accepted, {} otherwise
    hist_running,   \* history: per service, count = {n} when n > 0 is the
                    \* desired count it had when it last ran ({} when it
                    \* never did), all_ok = no call naming it has raised
    ecs_clusters,   \* provider: the clusters, in the order list_clusters gives
                    \* them, each [clusterArn, tags]
    disc,           \* the run of get_schedulable_instances: its position, its
                    \* local variables and the responses it has received
    validate_call,  \* a call of _validate_ecs_tag_values: the caller's list,
                    \* what was returned and what was logged
    window_call,    \* a call of build_schedule_from_maintenance_window: its
                    \* argument and its outcome
    tag_cache       \* self._instance_tags with the tag-search API behind the
                    \* property rds_resource_tags

vars == <<svc, config, gen, results, calls, logs, hist_captured, hist_running,
          ecs_clusters, disc, validate_call, window_call, tag_cache>>

\* what the generators leave alone, and what discovery leaves alone
discoveryVars == <<ecs_clusters, disc>>

transitionVars == <<svc, config, gen, results, calls, logs, hist_captured, hist_running>>

\* what the generators and discovery both leave alone
helperVars == <<validate_call, window_call, tag_cache>>

-----------------------------------------------------------------------------
(* Bounds of the model *)

\* largest desired count a service has (two digits, so that str and int work
\* on more than one character)
MaxCount == 11
\* largest number of records in a configured tag set
MaxTags == 2

-----------------------------------------------------------------------------
(* Characters, str() and int() *)

Digits == <<"0", "1", "2", "3", "4", "5", "6", "7", "8", "9">>

DigitSet == {Digits[i] : i \in 1..10}

Letters ==
    {"a","b","c","d","e","f","g","h","i","j","k","l","m",
     "n","o","p","q","r","s","t","u","v","w","x","y","z",
     "A","B","C","D","E","F","G","H","I","J","K","L","M",
     "N","O","P","Q","R","S","T","U","V","W","X","Y","Z"}

\* the characters \s of a Python regular expression matches (ASCII)
Whitespace == {" ", "\t", "\n", "\r", "\f"}

\* the complement of RESTRICTED_ECS_TAG_VALUE_SET_CHARACTERS
AllowedChars ==
    Letters \cup DigitSet \cup Whitespace
        \cup {"_", ".", ":", "+", "/", "=", "\\", "@", "-"}

\* StrOfNat writing the least significant digit first
RECURSIVE StrOfNat_reversed(_)
StrOfNat_reversed(n) ==
    IF n < 10 THEN <<Digits[n + 1]>>
    ELSE <<Digits[(n % 10) + 1]>> \o StrOfNat_reversed(n \div 10)

\* str(n) of a non-negative int: its decimal digits, most significant first
RECURSIVE StrOfNat(_)
StrOfNat(n) ==
    IF n < 10 THEN <<Digits[n + 1]>>
    ELSE StrOfNat(n \div 10) \o <<Digits[(n % 10) + 1]>>

DigitVal(c) == CHOOSE d \in 0..9 : Digits[d + 1] = c

RECURSIVE DigitsValue(_)
DigitsValue(s) ==
    IF s = <<>> THEN 0
    ELSE 10 * DigitsValue(SubSeq(s, 1, Len(s) - 1)) + DigitVal(s[Len(s)])

\* The strings of the model on which int(s) returns (digits and letters are
\* the only characters of the tag values it is applied to): the non-empty
\* digit strings.  On any other string int raises ValueError.
IsIntLiteral(s) == s # <<>> /\ \A i \in DOMAIN s : s[i] \in DigitSet

\* int(s) of such a string
IntOfStr(s) == DigitsValue(s)

\* re.sub(RESTRICTED_ECS_TAG_VALUE_SET_CHARACTERS, " ", v).replace("\n", " ")
Sanitize(v) ==
    [i \in DOMAIN v |->
        IF v[i] \notin AllowedChars \/ v[i] = "\n" THEN " " ELSE v[i]]

-----------------------------------------------------------------------------
(* Tag records.  A record of a configured tag set is a dict in canonical   *)
(* shape {"key":k,"value":v} or in provider shape {"Key":k,"Value":v};     *)
(* shape says which.                                                       *)

CaptureKey == "ScheduledLastDesiredCount"

Tag(shape, k, v) == [shape |-> shape, key |-> k, value |-> v]

\* lines 456-458: a record with 'Key' and 'Value' is renamed to key/value
NormalizeTag(t) == IF t.shape = "prov" THEN [t EXCEPT !.shape = "canon"] ELSE t

NormalizeTags(tags) == [i \in DOMAIN tags |-> NormalizeTag(tags[i])]

\* t.get("value", "") is "" for a record in provider shape, which the
\* substitution leaves alone; a canonical record gets its value sanitized
_validate_ecs_tag_values(tags) ==
    [i \in DOMAIN tags |->
        IF tags[i].shape = "canon"
        THEN [tags[i] EXCEPT !.value = Sanitize(tags[i].value)]
        ELSE tags[i]]

\* [t["key"] for t in tags]
KeyNames(tags) == [i \in DOMAIN tags |-> tags[i].key]

Range(s) == {s[i] : i \in DOMAIN s}

\* [t["key"] for t in tags if t["key"] not in names]
KeysNotIn(tags, names) ==
    LET keep(t) == t.key \notin Range(names)
    IN  KeyNames(SelectSeq(tags, keep))

-----------------------------------------------------------------------------
(* The provider (ECS control plane) as the code's calls see it *)

EmptyTags == [k \in {} |-> <<>>]

\* get_tags: {tag["key"]: tag["value"] for tag in inst["tags"]}; the provider
\* keeps one value per key, so the dict is the provider's tag map itself
get_tags(inst) == inst.tags

\* _select_resource_data, the fields that stop_instances, start_instances and
\* the tag reconciliation read of the snapshot
_select_resource_data(ecs_resource, tag_service_having_no_tag) ==
    [id            |-> ecs_resource.serviceArn,
     arn           |-> ecs_resource.serviceArn,
     cluster_arn   |-> ecs_resource.clusterArn,
     force_stop    |-> tag_service_having_no_tag,
     tags          |-> get_tags(ecs_resource),
     desired_count |-> ecs_resource.desiredCount]

\* the record describe_services returns for a service
DescribeService(arn) ==
    [serviceArn   |-> arn,
     clusterArn   |-> svc[arn].clusterArn,
     desiredCount |-> svc[arn].desiredCount,
     tags         |-> svc[arn].tags]

Call(op, arn, count, keys, tags, ok) ==
    [op |-> op, arn |-> arn, count |-> count, keys |-> keys, tags |-> tags,
     ok |-> ok]

\* tag_resource rejects a request that names one key twice
ProviderAcceptsTags(tags) ==
    \A i, j \in DOMAIN tags : tags[i].key = tags[j].key => i = j

\* the effect of one accepted call on the service it names
ProviderApply(s, c) ==
    IF ~c.ok THEN s
    ELSE CASE c.op = "update_service" -> [s EXCEPT !.desiredCount = c.count]
           [] c.op = "untag_resource" ->
                [s EXCEPT !.tags = [k \in DOMAIN s.tags \ Range(c.keys) |-> s.tags[k]]]
           [] c.op = "tag_resource" ->
                [s EXCEPT !.tags =
                    [k \in DOMAIN s.tags \cup Range(KeyNames(c.tags)) |->
                        IF k \in Range(KeyNames(c.tags))
                        THEN (CHOOSE t \in Range(c.tags) : t.key = k).value
                        ELSE s.tags[k]]]

RECURSIVE ProviderApplyAll(_, _)
ProviderApplyAll(s, cs) ==
    IF cs = <<>> THEN s
    ELSE ProviderApplyAll(ProviderApply(s, Head(cs)), Tail(cs))

-----------------------------------------------------------------------------
(* Tag reconciliation: what _tag_stopped_resource and                      *)
(* _tag_started_instances compute before their try block.  The result is   *)
(* the configuration as the method leaves it (it renames the records of    *)
(* one configured list in place), the keys to remove and the tags to apply.*)

\* _tag_stopped_resource taking the key names of the stop tags before the
\* synthesized tag is appended
_tag_stopped_resource_names_first(cfg, ecs_resource) ==
    LET stop_tags0   == NormalizeTags(_validate_ecs_tag_values(cfg.stopped_tags))
        started_tags == NormalizeTags(cfg.started_tags)
        stop_tags_key_names == KeyNames(stop_tags0)
        stop_tags    == Append(stop_tags0,
                            Tag("canon", CaptureKey, StrOfNat(ecs_resource.desired_count)))
        start_tags_keys     == KeysNotIn(started_tags, stop_tags_key_names)
    IN  [config |-> [cfg EXCEPT !.started_tags = started_tags],
         untag  |-> start_tags_keys,
         tag    |-> stop_tags]

_tag_stopped_resource(cfg, ecs_resource) ==
    LET stop_tags0   == NormalizeTags(_validate_ecs_tag_values(cfg.stopped_tags))
        started_tags == NormalizeTags(cfg.started_tags)
        stop_tags    == Append(stop_tags0,
                            Tag("canon", CaptureKey, StrOfNat(ecs_resource.desired_count)))
        stop_tags_key_names == KeyNames(stop_tags)
        start_tags_keys     == KeysNotIn(started_tags, stop_tags_key_names)
    IN  [config |-> [cfg EXCEPT !.started_tags = started_tags],
         untag  |-> start_tags_keys,
         tag    |-> stop_tags]

\* _tag_started_instances removing, as the stop transition does, the keys of
\* the started set that the stopped set lacks
_tag_started_instances_swapped(cfg, ecs_resource) ==
    LET start_tags   == NormalizeTags(_validate_ecs_tag_values(cfg.started_tags))
        stopped_tags == NormalizeTags(cfg.stopped_tags)
        stop_tags_keys == KeysNotIn(start_tags, KeyNames(stopped_tags))
    IN  [config |-> [cfg EXCEPT !.stopped_tags = stopped_tags],
         untag  |-> stop_tags_keys,
         tag    |-> start_tags]

_tag_started_instances(cfg, ecs_resource) ==
    LET start_tags   == NormalizeTags(_validate_ecs_tag_values(cfg.started_tags))
        stopped_tags == NormalizeTags(cfg.stopped_tags)
        start_tags_key_names == KeyNames(start_tags)
        stop_tags_keys       == KeysNotIn(stopped_tags, start_tags_key_names)
    IN  [config |-> [cfg EXCEPT !.stopped_tags = stopped_tags],
         untag  |-> stop_tags_keys,
         tag    |-> start_tags]

\* The try block of both methods: untag_resource if there are keys to remove,
\* then tag_resource if there are tags to apply; the first call that raises
\* ends the block.  out names the call that raises, if any.
UntagIssued(plan) == Len(plan.untag) > 0

TagIssued(plan, out) ==
    /\ ~(UntagIssued(plan) /\ out = "untag_raises")
    /\ Len(plan.tag) > 0

TagAccepted(plan, out) ==
    TagIssued(plan, out) /\ out # "tag_raises" /\ ProviderAcceptsTags(plan.tag)

TaggingCalls(arn, plan, out) ==
    (IF UntagIssued(plan)
     THEN <<Call("untag_resource", arn, 0, plan.untag, <<>>, out # "untag_raises")>>
     ELSE <<>>)
    \o
    (IF TagIssued(plan, out)
     THEN <<Call("tag_resource", arn, 0, <<>>, plan.tag, TagAccepted(plan, out))>>
     ELSE <<>>)

\* TaggingLogs with the try block around the tag call alone
TaggingLogs_tag_only(id, warning, cs) ==
    IF \E i \in DOMAIN cs : cs[i].op = "tag_resource" /\ ~cs[i].ok
    THEN <<[level |-> "warning", msg |-> warning, id |-> id]>>
    ELSE <<>>

\* the except clause: one warning naming the resource when a call raised
TaggingLogs(id, warning, cs) ==
    IF \E i \in DOMAIN cs : ~cs[i].ok
    THEN <<[level |-> "warning", msg |-> warning, id |-> id]>>
    ELSE <<>>

\* which outcomes the provider can produce for a plan: a call that is not
\* issued cannot raise
Outcomes(plan) ==
    {"ok", "resize_raises"}
        \cup (IF UntagIssued(plan) THEN {"untag_raises"} ELSE {})
        \cup (IF Len(plan.tag) > 0 THEN {"tag_raises"} ELSE {})

-----------------------------------------------------------------------------
(* The generators.  Calling stop_instances or start_instances runs none of *)
(* the body; each next() of the consumer runs it up to the next yield, to  *)
(* the end of the loop, or into the except clause.                         *)

STATE_STOPPED == "stopped"
STATE_RUNNING == "running"

\* the sequences without repetition over a set
InjectiveSeqs(S) ==
    UNION {{s \in [1..n -> S] : \A i, j \in 1..n : s[i] = s[j] => i = j} :
            n \in 1..Cardinality(S)}

\* the evaluator's resource objects: field for field the data that discovery
\* selected from the provider's description of the service
Resource(arn) == _select_resource_data(DescribeService(arn), FALSE)

NewGenerator(mode, arns) ==
    [mode |-> mode, batch |-> [i \in DOMAIN arns |-> Resource(arns[i])],
     idx |-> 1, done |-> FALSE, nexts |-> 0]

\* Resume when the body runs on without a request of the consumer
Resume_unasked(g) == g

\* The body of a generator runs only inside a next() of its consumer, from
\* where it was suspended up to the next yield or its end; nexts counts
\* those requests.
Resume(g) == [g EXCEPT !.nexts = @ + 1]

\* AbortBatch as a try block inside the loop would have it: the loop goes on
AbortBatch_continue(g) == [g EXCEPT !.idx = @ + 1]

\* the except clause around the for loop: the error is logged and the
\* generator returns
AbortBatch(g) == [g EXCEPT !.done = TRUE]

\* control returns to the head of the for loop after a yield
NextResource(g) == [g EXCEPT !.idx = @ + 1]

\* Yield collecting the results newest first
Yield_prepend(rs, ecs_resource, state) == <<<<ecs_resource.id, state>>>> \o rs

\* yield ecs_resource.id, state
Yield(rs, ecs_resource, state) == Append(rs, <<ecs_resource.id, state>>)

ErrorLog(msg, ecs_resource) ==
    [level |-> "error", msg |-> msg, id |-> ecs_resource.arn]

stop_instances ==
    /\ gen.mode = "none" \/ gen.done
    /\ \E arns \in InjectiveSeqs(DOMAIN svc) :
            gen' = NewGenerator("stop", arns)
    /\ results' = <<>>
    /\ calls' = <<>>
    /\ logs' = <<>>
    /\ UNCHANGED <<svc, config, hist_captured, hist_running>>
    /\ UNCHANGED discoveryVars
    /\ UNCHANGED helperVars

start_instances ==
    /\ gen.mode = "none" \/ gen.done
    /\ \E arns \in InjectiveSeqs(DOMAIN svc) :
            gen' = NewGenerator("start", arns)
    /\ results' = <<>>
    /\ calls' = <<>>
    /\ logs' = <<>>
    /\ UNCHANGED <<svc, config, hist_captured, hist_running>>
    /\ UNCHANGED discoveryVars
    /\ UNCHANGED helperVars

\* next() on a generator whose loop has run over every resource
GeneratorExhausted ==
    /\ gen.mode \in {"stop", "start"}
    /\ ~gen.done
    /\ gen.idx > Len(gen.batch)
    /\ gen' = Resume([gen EXCEPT !.done = TRUE])
    /\ UNCHANGED <<svc, config, results, calls, logs, hist_captured, hist_running>>
    /\ UNCHANGED discoveryVars
    /\ UNCHANGED helperVars

\* TaggingPropagates without the except clause of the tagging methods
TaggingPropagates_uncaught(tcalls) == \E i \in DOMAIN tcalls : ~tcalls[i].ok

\* Whether an exception of the tagging calls leaves _tag_stopped_resource or
\* _tag_started_instances: their except clause catches every Exception.
TaggingPropagates(tcalls) == FALSE

\* LoopBodyCalls tagging before it resizes
LoopBodyCalls_tag_first(resize, tcalls) == tcalls \o <<resize>>

\* The calls of one pass of the loop body, in issue order: update_service,
\* and the tagging calls once it has returned.
LoopBodyCalls(resize, tcalls) ==
    <<resize>> \o (IF resize.ok THEN tcalls ELSE <<>>)

\* One pass of a loop body (lines 532-538, 557-563) with its way into the
\* except clause around the loop (lines 539-541, 564-567): the resize call,
\* the tag reconciliation plan run against the provider, the yield.
LoopBody(ecs_resource, resize, plan, out, state, warning, error) ==
    LET tcalls == TaggingCalls(ecs_resource.arn, plan, out)
        issued == LoopBodyCalls(resize, tcalls)
        raised == ~resize.ok \/ TaggingPropagates(tcalls)
    IN  /\ calls' = calls \o issued
        /\ svc' = [svc EXCEPT ![ecs_resource.arn] = ProviderApplyAll(@, issued)]
        /\ logs' = logs
                \o (IF resize.ok THEN TaggingLogs(ecs_resource.id, warning, tcalls)
                    ELSE <<>>)
                \o (IF raised THEN <<ErrorLog(error, ecs_resource)>> ELSE <<>>)
        /\ config' = IF resize.ok THEN plan.config ELSE config
        /\ results' = IF raised THEN results ELSE Yield(results, ecs_resource, state)
        /\ gen' = Resume(IF raised THEN AbortBatch(gen) ELSE NextResource(gen))
        /\ hist_captured' =
                IF ~resize.ok THEN hist_captured
                ELSE [hist_captured EXCEPT ![ecs_resource.arn] =
                        IF state = STATE_STOPPED /\ TagAccepted(plan, out)
                        THEN {ecs_resource.desired_count} ELSE {}]
        /\ hist_running' =
                LET now == ProviderApplyAll(svc[ecs_resource.arn], issued).desiredCount
                IN  [hist_running EXCEPT ![ecs_resource.arn] =
                        [count  |-> IF now > 0 THEN {now} ELSE @.count,
                         all_ok |-> @.all_ok /\ \A i \in DOMAIN issued : issued[i].ok]]

StopResource(ecs_resource, out) ==
    LoopBody(ecs_resource,
             Call("update_service", ecs_resource.arn, 0, <<>>, <<>>,
                  out # "resize_raises"),
             _tag_stopped_resource(config, ecs_resource), out,
             STATE_STOPPED, "WARN_TAGGING_STOPPED", "ERR_STOPPING_INSTANCE")

stop_instances_next ==
    /\ UNCHANGED discoveryVars
    /\ UNCHANGED helperVars
    /\ gen.mode = "stop"
    /\ ~gen.done
    /\ gen.idx <= Len(gen.batch)
    /\ LET ecs_resource == gen.batch[gen.idx]
       IN  \E out \in Outcomes(_tag_stopped_resource(config, ecs_resource)) :
                StopResource(ecs_resource, out)

\* whether ecs_resource.tags['ScheduledLastDesiredCount'] is there and int()
\* accepts it (line 559)
HasUsableCapture(ecs_resource) ==
    /\ CaptureKey \in DOMAIN ecs_resource.tags
    /\ IsIntLiteral(ecs_resource.tags[CaptureKey])

\* StartResource going on to the next resource when the snapshot has no
\* usable capture tag
StartResource_skip(ecs_resource, out) ==
    IF ~HasUsableCapture(ecs_resource)
    THEN /\ out = "ok"
         /\ logs' = Append(logs, ErrorLog("ERR_STARTING_INSTANCE", ecs_resource))
         /\ gen' = Resume(NextResource(gen))
         /\ UNCHANGED <<svc, config, results, calls, hist_captured, hist_running>>
    ELSE LoopBody(ecs_resource,
                  Call("update_service", ecs_resource.arn,
                       IntOfStr(ecs_resource.tags[CaptureKey]), <<>>, <<>>,
                       out # "resize_raises"),
                  _tag_started_instances(config, ecs_resource), out,
                  STATE_RUNNING, "WARN_TAGGING_STARTED", "ERR_STARTING_INSTANCE")

\* The loop body of start_instances: building the arguments raises KeyError
\* or ValueError when the snapshot has no usable capture tag, before any call.
StartResource(ecs_resource, out) ==
    IF ~HasUsableCapture(ecs_resource)
    THEN /\ out = "ok"
         /\ logs' = Append(logs, ErrorLog("ERR_STARTING_INSTANCE", ecs_resource))
         /\ gen' = Resume(AbortBatch(gen))
         /\ UNCHANGED <<svc, config, results, calls, hist_captured, hist_running>>
    ELSE LoopBody(ecs_resource,
                  Call("update_service", ecs_resource.arn,
                       IntOfStr(ecs_resource.tags[CaptureKey]), <<>>, <<>>,
                       out # "resize_raises"),
                  _tag_started_instances(config, ecs_resource), out,
                  STATE_RUNNING, "WARN_TAGGING_STARTED", "ERR_STARTING_INSTANCE")

start_instances_next ==
    /\ UNCHANGED discoveryVars
    /\ UNCHANGED helperVars
    /\ gen.mode = "start"
    /\ ~gen.done
    /\ gen.idx <= Len(gen.batch)
    /\ LET ecs_resource == gen.batch[gen.idx]
       IN  \E out \in Outcomes(_tag_started_instances(config, ecs_resource)) :
                StartResource(ecs_resource, out)

-----------------------------------------------------------------------------
(* Discovery: get_schedulable_instances and the paginated loops it runs.   *)
(* One action is one request of a loop with the provider's response to it; *)
(* the response that ends a loop also runs the code up to the next request.*)
(* Two loops that follow one another are never of the same kind.           *)

\* self._tagname
TagName == "Schedule"

\* the provider's order of the services of a cluster
ServiceOrder == <<"svc1", "svc2", "svc3">>

\* the serviceArns list_services has to return for a cluster
ListedServices(cluster) ==
    LET listed(a) == a \in DOMAIN svc /\ svc[a].clusterArn = cluster
    IN  SelectSeq(ServiceOrder, listed)

\* the record describe_clusters returns for a cluster ARN
DescribeCluster(arn) ==
    LET i == CHOOSE j \in DOMAIN ecs_clusters : ecs_clusters[j].clusterArn = arn
    IN  [clusterName |-> ecs_clusters[i].clusterArn, tags |-> ecs_clusters[i].tags]

\* tags.get(self._tagname) is not None
_filter_resource_based_on_tags(ecs_resource) ==
    TagName \in DOMAIN get_tags(ecs_resource)

LoopKinds == {"list_clusters", "describe_clusters", "list_services", "describe_services"}

IdleDiscovery ==
    [pc             |-> "idle",
     via            |-> "none",      \* which for loop of get_schedulable_instances
     cluster        |-> "none",      \* its loop variable
     todo           |-> <<>>,        \* the clusters it has yet to visit
     pending        |-> <<>>,        \* provider: items of the current request not yet returned
     spurious       |-> 0,           \* provider: tokens returned with nothing left
     clusters       |-> <<>>,        \* get_schedulable_ecs_clusters: clusters
     mixed_clusters |-> [clusters_with_schedule |-> <<>>,
                         clusters_without_schedule |-> <<>>],
     service_arns   |-> <<>>,        \* the services list of a list_services loop
     all_services   |-> <<>>,        \* the all_services list of a describe loop
     services       |-> <<>>,        \* get_schedulable_instances: services
     pages          |-> [kind |-> "none", resps |-> <<>>]]
                                     \* the responses of the latest loop that got
                                     \* one, and which of LoopKinds it is

\* largest number of items the provider puts on one page
PageSize == 2
\* how often, in one run of discovery, the provider hands out a token although
\* nothing is left to return (the page after it is empty)
MaxSpurious == 1

Min(a, b) == IF a < b THEN a ELSE b

\* The responses the provider can give to a request of which pending is left:
\* the next one or more items, with a token when items remain after them,
\* and with or without one when none remain.
Responses(pending, spurious) ==
    LET sizes == IF pending = <<>> THEN {0} ELSE 1..Min(PageSize, Len(pending))
    IN  {[items |-> SubSeq(pending, 1, n), token |-> t] :
            <<n, t>> \in {x \in sizes \X BOOLEAN :
                            /\ x[1] < Len(pending) => x[2]
                            /\ (x[1] = Len(pending) /\ x[2]) => spurious < MaxSpurious}}

\* the provider's side of a response, and the record of it
Receive(d, kind, resp) ==
    [d EXCEPT !.pending = SubSeq(@, Len(resp.items) + 1, Len(@)),
              !.spurious = IF resp.token /\ Len(resp.items) = Len(d.pending)
                           THEN @ + 1 ELSE @,
              !.pages = IF d.pages.kind = kind
                        THEN [@ EXCEPT !.resps = Append(@, resp)]
                        ELSE [kind |-> kind, resps |-> <<resp>>]]

\* LoopDone stopping after the first page, token or not
LoopDone_first_page(resp) == TRUE

\* if "NextToken" in resp: args["NextToken"] = ... else: done = True
LoopDone(resp) == ~resp.token

\* list.extend
Extend(acc, items) == acc \o items

\* lines 253-258: the described clusters sorted into the two lists
RECURSIVE ClassifyClusters(_, _)
ClassifyClusters(mixed, arns) ==
    IF arns = <<>> THEN mixed
    ELSE LET cluster_data == DescribeCluster(Head(arns))
             name == cluster_data.clusterName
         IN  ClassifyClusters(
                IF _filter_resource_based_on_tags(cluster_data)
                THEN [mixed EXCEPT !.clusters_with_schedule = Append(@, name)]
                ELSE [mixed EXCEPT !.clusters_without_schedule = Append(@, name)],
                Tail(arns))

\* lines 312-320: every described service is appended, flagged when it has no
\* schedule tag
ClassifyServices(arns) ==
    [i \in DOMAIN arns |->
        LET service_data == DescribeService(arns[i])
        IN  IF _filter_resource_based_on_tags(service_data)
            THEN _select_resource_data(service_data, FALSE)
            ELSE _select_resource_data(service_data, TRUE)]

\* lines 356-358: every described service is appended, unflagged
SelectServices(arns) ==
    [i \in DOMAIN arns |-> _select_resource_data(DescribeService(arns[i]), FALSE)]

\* the first request of a list_services loop for the next cluster of the
\* current for loop
StartListServices(d) ==
    [d EXCEPT !.pc = "list_services",
              !.cluster = Head(d.todo),
              !.todo = Tail(d.todo),
              !.pending = ListedServices(Head(d.todo)),
              !.service_arns = <<>>]

\* lines 202-218: the for loop over the clusters without schedule, then the
\* one over the clusters with schedule, then return services
Advance(d) ==
    IF d.todo # <<>> THEN StartListServices(d)
    ELSE IF d.via = "untagged"
         THEN LET d2 == [d EXCEPT !.via = "tagged",
                                  !.todo = d.mixed_clusters.clusters_with_schedule]
              IN  IF d2.todo # <<>> THEN StartListServices(d2)
                  ELSE [d2 EXCEPT !.pc = "returned"]
         ELSE [d EXCEPT !.pc = "returned"]

\* Raise with an except clause that returns what has been gathered so far
Raise_swallowed(d) == [d EXCEPT !.pc = "returned"]

\* an exception of a list or describe call: nothing catches it
Raise(d) == [d EXCEPT !.pc = "raised"]

get_schedulable_instances ==
    /\ disc.pc \in {"idle", "returned", "raised"}
    /\ disc' = [IdleDiscovery EXCEPT
                    !.pc = "list_clusters",
                    !.pending = [i \in DOMAIN ecs_clusters |-> ecs_clusters[i].clusterArn]]
    /\ UNCHANGED ecs_clusters
    /\ UNCHANGED transitionVars
    /\ UNCHANGED helperVars

\* one list_clusters request of get_schedulable_ecs_clusters (lines 229-237);
\* the last one goes on to the first describe_clusters request
get_schedulable_ecs_clusters ==
    /\ disc.pc = "list_clusters"
    /\ \/ \E resp \in Responses(disc.pending, disc.spurious) :
            LET d == [Receive(disc, "list_clusters", resp) EXCEPT
                        !.clusters = Extend(@, resp.items)]
            IN  disc' = IF LoopDone(resp)
                        THEN [d EXCEPT !.pc = "describe_clusters",
                                       !.pending = d.clusters]
                        ELSE d
       \/ disc' = Raise(disc)
    /\ UNCHANGED ecs_clusters
    /\ UNCHANGED transitionVars
    /\ UNCHANGED helperVars

\* one describe_clusters request (lines 251-262); the last one returns the
\* two lists to get_schedulable_instances, which enters its for loops
_validate_cluster_tag_values ==
    /\ disc.pc = "describe_clusters"
    /\ \/ \E resp \in Responses(disc.pending, disc.spurious) :
            LET d == [Receive(disc, "describe_clusters", resp) EXCEPT
                        !.mixed_clusters = ClassifyClusters(@, resp.items)]
            IN  disc' = IF LoopDone(resp)
                        THEN Advance([d EXCEPT
                                !.via = "untagged",
                                !.todo = d.mixed_clusters.clusters_without_schedule])
                        ELSE d
       \/ disc' = Raise(disc)
    /\ UNCHANGED ecs_clusters
    /\ UNCHANGED transitionVars
    /\ UNCHANGED helperVars

\* one list_services request (lines 286-294 and 340-348, the same loop); the
\* last one goes on to the first describe_services request
ListServicesPage ==
    \/ \E resp \in Responses(disc.pending, disc.spurious) :
            LET d == [Receive(disc, "list_services", resp) EXCEPT
                        !.service_arns = Extend(@, resp.items)]
            IN  disc' = IF LoopDone(resp)
                        THEN [d EXCEPT !.pc = "describe_services",
                                       !.pending = d.service_arns,
                                       !.all_services = <<>>]
                        ELSE d
    \/ disc' = Raise(disc)

get_schedulable_ecs_services ==
    /\ disc.pc = "list_services"
    /\ disc.via = "untagged"
    /\ ListServicesPage
    /\ UNCHANGED ecs_clusters
    /\ UNCHANGED transitionVars
    /\ UNCHANGED helperVars

get_all_services_list ==
    /\ disc.pc = "list_services"
    /\ disc.via = "tagged"
    /\ ListServicesPage
    /\ UNCHANGED ecs_clusters
    /\ UNCHANGED transitionVars
    /\ UNCHANGED helperVars

\* one describe_services request for a cluster without schedule (lines
\* 310-325); after the last one line 204 assigns the list to services
_validate_service_tag_values ==
    /\ disc.pc = "describe_services"
    /\ disc.via = "untagged"
    /\ \/ \E resp \in Responses(disc.pending, disc.spurious) :
            LET d == [Receive(disc, "describe_services", resp) EXCEPT
                        !.all_services = Extend(@, ClassifyServices(resp.items))]
            IN  disc' = IF LoopDone(resp)
                        THEN Advance([d EXCEPT !.services = d.all_services])
                        ELSE d
       \/ disc' = Raise(disc)
    /\ UNCHANGED ecs_clusters
    /\ UNCHANGED transitionVars
    /\ UNCHANGED helperVars

\* one describe_services request for a cluster with schedule (lines 354-363);
\* after the last one line 215 extends services by the list
get_all_services_describe ==
    /\ disc.pc = "describe_services"
    /\ disc.via = "tagged"
    /\ \/ \E resp \in Responses(disc.pending, disc.spurious) :
            LET d == [Receive(disc, "describe_services", resp) EXCEPT
                        !.all_services = Extend(@, SelectServices(resp.items))]
            IN  disc' = IF LoopDone(resp)
                        THEN Advance([d EXCEPT !.services = Extend(@, d.all_services)])
                        ELSE d
       \/ disc' = Raise(disc)
    /\ UNCHANGED ecs_clusters
    /\ UNCHANGED transitionVars
    /\ UNCHANGED helperVars

-----------------------------------------------------------------------------
(* _validate_ecs_tag_values called on a list of the caller (lines 405-414) *)

IdleValidate ==
    [pc       |-> "idle",
     arg      |-> <<>>,     \* history: the list as the caller passed it
     tags     |-> <<>>,     \* the caller's list object
     result   |-> <<>>,     \* the list the first call returned
     again    |-> <<>>,     \* the list the call on result returned
     warnings |-> 0]        \* self._logger.warning calls of the first call

\* CallerListAfter when the loop writes to the list it was given
CallerListAfter_aliased(tags, result) == result

\* What the caller's list holds once the call has returned: the loop writes
\* to copy.deepcopy(tags), so what it held before.
CallerListAfter(tags, result) == tags

\* the records whose value the loop replaces, one warning each
ChangedRecords(tags, result) == {i \in DOMAIN tags : result[i].value # tags[i].value}

\* the first call, on the caller's list
validate_ecs_tag_values_call ==
    /\ validate_call.pc = "idle"
    /\ LET result == _validate_ecs_tag_values(validate_call.tags)
       IN  validate_call' =
                [validate_call EXCEPT
                    !.pc = "returned",
                    !.tags = CallerListAfter(@, result),
                    !.result = result,
                    !.warnings = Cardinality(ChangedRecords(validate_call.tags, result))]
    /\ UNCHANGED <<window_call, tag_cache>>
    /\ UNCHANGED transitionVars
    /\ UNCHANGED discoveryVars

\* a second call, on the list the first one returned
validate_ecs_tag_values_again ==
    /\ validate_call.pc = "returned"
    /\ validate_call' =
            [validate_call EXCEPT
                !.pc = "revalidated",
                !.again = _validate_ecs_tag_values(validate_call.result)]
    /\ UNCHANGED <<window_call, tag_cache>>
    /\ UNCHANGED transitionVars
    /\ UNCHANGED discoveryVars

-----------------------------------------------------------------------------
(* build_schedule_from_maintenance_window (lines 131-184).  Strings are    *)
(* sequences of one-character strings.                                     *)

\* str.split(sep, 1): the part before the first sep and the part after it,
\* or the string alone when it holds no sep
SplitOnce(s, sep) ==
    IF \E i \in DOMAIN s : s[i] = sep
    THEN LET i == CHOOSE j \in DOMAIN s :
                    s[j] = sep /\ \A k \in 1..(j - 1) : s[k] # sep
         IN  <<SubSeq(s, 1, i - 1), SubSeq(s, i + 1, Len(s))>>
    ELSE <<s>>

\* str.split(sep): the parts between all the occurrences of sep
RECURSIVE Split(_, _)
Split(s, sep) ==
    LET parts == SplitOnce(s, sep)
    IN  IF Len(parts) = 1 THEN parts
        ELSE <<parts[1]>> \o Split(parts[2], sep)

\* the weekday names of a maintenance window string, Monday first
DayNames ==
    << <<"m","o","n">>, <<"t","u","e">>, <<"w","e","d">>, <<"t","h","u">>,
       <<"f","r","i">>, <<"s","a","t">>, <<"s","u","n">> >>

\* WeekdaySetBuilder().build(day_string): the set holding the one weekday
\* (0 = Monday) the name stands for
WeekdaySetBuilder_build(day_string) ==
    {d \in 0..6 : DayNames[d + 1] = day_string}

\* SchedulerConfigBuilder.get_time_from_string("HH:MM"): a time of day
get_time_from_string(timestr) ==
    LET parts == SplitOnce(timestr, ":")
    IN  [hour |-> DigitsValue(parts[1]), minute |-> DigitsValue(parts[2])]

\* RunningPeriod(name=..., begintime=..., endtime=..., weekdays=...)
RunningPeriod(suffix, begintime, endtime, weekdays) ==
    [name      |-> <<"RDS preferred Maintenance Window Period">> \o suffix,
     begintime |-> begintime,
     endtime   |-> endtime,
     weekdays  |-> weekdays]

\* MaintenancePeriods with one period whatever the two days are
MaintenancePeriods_single(start_day_string, stop_day_string, start_time, end_time) ==
    <<RunningPeriod(<<>>, start_time, end_time,
                    WeekdaySetBuilder_build(start_day_string))>>

\* lines 152-179: one period when the two day strings are equal, else one
\* up to 23:59 on the start day and one from 00:00 on the stop day
MaintenancePeriods(start_day_string, stop_day_string, start_time, end_time) ==
    LET start_weekday == WeekdaySetBuilder_build(start_day_string)
    IN  IF start_day_string = stop_day_string
        THEN <<RunningPeriod(<<>>, start_time, end_time, start_weekday)>>
        ELSE LET end_time_day1   == get_time_from_string(<<"2","3",":","5","9">>)
                 begin_time_day2 == get_time_from_string(<<"0","0",":","0","0">>)
                 stop_weekday    == WeekdaySetBuilder_build(stop_day_string)
             IN  <<RunningPeriod(<<"-", start_day_string>>, start_time,
                                 end_time_day1, start_weekday),
                   RunningPeriod(<<"-", stop_day_string>>, begin_time_day2,
                                 end_time, stop_weekday)>>

\* InstanceSchedule(name=..., periods=periods, timezone="UTC", enforced=True)
InstanceSchedule(periods) ==
    [name     |-> "RDS preferred Maintenance Window Schedule",
     periods  |-> periods,
     timezone |-> "UTC",
     enforced |-> TRUE]

\* whether the unpacking assignments of lines 140-142 find two parts each
Unpacks(period_str) ==
    /\ Len(Split(period_str, "-")) = 2
    /\ Len(SplitOnce(Split(period_str, "-")[1], ":")) = 2
    /\ Len(SplitOnce(Split(period_str, "-")[2], ":")) = 2

IdleWindow ==
    [pc         |-> "idle",
     given      |-> [well_formed |-> FALSE, start_day |-> 0, start_time |-> 0,
                     stop_day |-> 0, stop_time |-> 0],
                            \* history: what the string was written from
                            \* (weekdays from 0 = Monday, minutes of the day)
     period_str |-> <<>>,
     schedule   |-> InstanceSchedule(<<>>)]

\* the call: a ValueError of the unpacking propagates, else the schedule
build_schedule_from_maintenance_window ==
    /\ window_call.pc = "idle"
    /\ LET period_str == window_call.period_str
       IN  IF ~Unpacks(period_str)
           THEN window_call' = [window_call EXCEPT !.pc = "raised"]
           ELSE LET start_string == Split(period_str, "-")[1]
                    stop_string  == Split(period_str, "-")[2]
                    start_day_string  == SplitOnce(start_string, ":")[1]
                    start_hhmm_string == SplitOnce(start_string, ":")[2]
                    stop_day_string   == SplitOnce(stop_string, ":")[1]
                    stop_hhmm_string  == SplitOnce(stop_string, ":")[2]
                    start_time == get_time_from_string(start_hhmm_string)
                    end_time   == get_time_from_string(stop_hhmm_string)
                IN  window_call' =
                        [window_call EXCEPT
                            !.pc = "returned",
                            !.schedule = InstanceSchedule(
                                MaintenancePeriods(start_day_string, stop_day_string,
                                                   start_time, end_time))]
    /\ UNCHANGED <<validate_call, tag_cache>>
    /\ UNCHANGED transitionVars
    /\ UNCHANGED discoveryVars

-----------------------------------------------------------------------------
(* The property rds_resource_tags (lines 97-129) and the reset of its      *)
(* cache by _init_scheduler (line 95).  One action is one get_resources    *)
(* request with the provider's response to it.                             *)

\* the cache as __init__ and _init_scheduler leave it: None
NoneCache == [is_none |-> TRUE, dict |-> EmptyTags]

\* largest number of invocations (_init_scheduler runs) on one object
MaxInvocations == 3
\* largest number of reads of the property within one invocation
MaxReads == 2

\* largest number of resources the tag-search API holds
MaxResources == 3

\* The n resources the tag-search API holds during the invocation-th
\* invocation, in its order: their schedule tag is edited between two
\* invocations, so its value tells them apart.
TaggedResources(invocation, n) ==
    [i \in 1..n |->
        [ResourceARN |-> <<"db", Digits[i + 1]>>,
         tags |-> <<[key |-> "Name", value |-> <<"d", "b">>],
                    [key |-> "owner", value |-> <<"o", "p", "s">>],
                    [key |-> TagName, value |-> StrOfNat(invocation)]>>]]

\* {tag["key"]: tag["value"] for tag in resource.get("tags", {})
\*      if tag["key"] in ["Name", self._tagname]}
SelectedTags(resource) ==
    LET kept == {i \in DOMAIN resource.tags : resource.tags[i].key \in {"Name", TagName}}
    IN  [k \in {resource.tags[i].key : i \in kept} |->
            resource.tags[CHOOSE i \in kept :
                            /\ resource.tags[i].key = k
                            /\ \A j \in kept : resource.tags[j].key = k => j <= i].value]

\* lines 119-122: the entries of one ResourceTagMappingList put into the dict
RECURSIVE CacheResources(_, _)
CacheResources(dict, items) ==
    IF items = <<>> THEN dict
    ELSE LET resource == Head(items)
         IN  CacheResources(
                [arn \in DOMAIN dict \cup {resource.ResourceARN} |->
                    IF arn = resource.ResourceARN THEN SelectedTags(resource)
                    ELSE dict[arn]],
                Tail(items))

\* ResetCache leaving the cache of the invocation before in place
ResetCache_kept(c) == c

\* line 95: self._instance_tags = None
ResetCache(c) == NoneCache

IdleTagCache ==
    [pc             |-> "idle",
     _instance_tags |-> NoneCache,
     invocation     |-> 0,       \* how often _init_scheduler has run
     resources      |-> 0,       \* provider: how many resources it holds
     pending        |-> <<>>,    \* provider: resources of the request not yet returned
     spurious       |-> 0,       \* provider: tokens returned with nothing left
     runs           |-> 0,       \* history: paginations begun in this invocation
     reads          |-> 0,       \* history: reads of the property in this invocation
     returned       |-> NoneCache]
                                 \* history: what the latest read returned

_init_scheduler ==
    /\ tag_cache.pc = "idle"
    /\ tag_cache.invocation < MaxInvocations
    /\ \E n \in 0..MaxResources :
        tag_cache' =
            [tag_cache EXCEPT
                !.invocation = @ + 1,
                !.resources = n,
                !._instance_tags = ResetCache(@),
                !.runs = 0,
                !.reads = 0,
                !.spurious = 0,
                !.returned = NoneCache]
    /\ UNCHANGED <<validate_call, window_call>>
    /\ UNCHANGED transitionVars
    /\ UNCHANGED discoveryVars

\* a read of the property: with a cache it returns it, without one it sets
\* the cache to {} and makes the first request
rds_resource_tags ==
    /\ tag_cache.pc = "idle"
    /\ tag_cache.invocation >= 1
    /\ tag_cache.reads < MaxReads
    /\ IF tag_cache._instance_tags.is_none
       THEN tag_cache' =
                [tag_cache EXCEPT
                    !.pc = "get_resources",
                    !._instance_tags = [is_none |-> FALSE, dict |-> EmptyTags],
                    !.pending = TaggedResources(tag_cache.invocation, tag_cache.resources),
                    !.runs = @ + 1]
       ELSE tag_cache' =
                [tag_cache EXCEPT
                    !.reads = @ + 1,
                    !.returned = tag_cache._instance_tags]
    /\ UNCHANGED <<validate_call, window_call>>
    /\ UNCHANGED transitionVars
    /\ UNCHANGED discoveryVars

\* one get_resources request of the while loop (lines 115-127): its
\* resources are cached; the response without a token ends the loop and the
\* read returns the cache.  An exception of the request leaves the property.
get_resources ==
    /\ tag_cache.pc = "get_resources"
    /\ \/ \E resp \in Responses(tag_cache.pending, tag_cache.spurious) :
            LET dict == CacheResources(tag_cache._instance_tags.dict, resp.items)
                c == [tag_cache EXCEPT
                        !._instance_tags = [is_none |-> FALSE, dict |-> dict],
                        !.pending = SubSeq(@, Len(resp.items) + 1, Len(@)),
                        !.spurious = IF resp.token /\ Len(resp.items) = Len(tag_cache.pending)
                                     THEN @ + 1 ELSE @]
            IN  tag_cache' =
                    IF resp.token THEN c
                    ELSE [c EXCEPT !.pc = "idle",
                                   !.reads = @ + 1,
                                   !.returned = c._instance_tags]
       \/ tag_cache' = [tag_cache EXCEPT !.pc = "idle", !.reads = @ + 1]
    /\ UNCHANGED <<validate_call, window_call>>
    /\ UNCHANGED transitionVars
    /\ UNCHANGED discoveryVars

-----------------------------------------------------------------------------
(* Initial states and specifications *)

\* no call of the helpers has been made, the object is as __init__ leaves it
HelpersIdle ==
    /\ validate_call = IdleValidate
    /\ window_call = IdleWindow
    /\ tag_cache = IdleTagCache

Services == {"svc1", "svc2", "svc3"}

IdleGenerator ==
    [mode |-> "none", batch |-> <<>>, idx |-> 1, done |-> FALSE, nexts |-> 0]

\* a service that runs n tasks and that no transition has touched
RunningService(n) ==
    [clusterArn |-> "cluster1", desiredCount |-> n, tags |-> EmptyTags]

\* the tags of a resource that carries the schedule tag, and no other
ScheduleTags == [k \in {TagName} |-> <<"o", "n">>]

Cluster(arn, tagged) ==
    [clusterArn |-> arn, tags |-> IF tagged THEN ScheduleTags ELSE EmptyTags]

\* the calls of a stop of service arn, running n tasks, in which nothing raises
StopCalls(cfg, arn, n) ==
    LET ecs_resource ==
            _select_resource_data(
                [serviceArn |-> arn, clusterArn |-> "cluster1",
                 desiredCount |-> n, tags |-> EmptyTags], FALSE)
    IN  <<Call("update_service", arn, 0, <<>>, <<>>, TRUE)>>
            \o TaggingCalls(arn, _tag_stopped_resource(cfg, ecs_resource), "ok")

\* the same service as an earlier invocation's stop has left it
StoppedService(cfg, arn, n) ==
    ProviderApplyAll(RunningService(n), StopCalls(cfg, arn, n))

\* a stopped service whose capture tag has since been edited to a value that
\* is no integer
MistaggedService(cfg, arn, n) ==
    LET s == StoppedService(cfg, arn, n)
    IN  [s EXCEPT !.tags = [k \in DOMAIN s.tags \cup {CaptureKey} |->
                                IF k = CaptureKey THEN <<"o", "n">> ELSE s.tags[k]]]

\* The services arns, each running a count of counts or stopped from one by
\* an earlier invocation (and its capture tag edited since, for the past
\* "mistagged"), under a configuration of configs.
InitWith(arns, counts, configs, pasts) ==
    /\ config \in configs
    /\ \E d \in [arns -> counts], past \in [arns -> pasts] :
        /\ svc = [a \in arns |->
                    CASE past[a] = "stopped" -> StoppedService(config, a, d[a])
                      [] past[a] = "mistagged" -> MistaggedService(config, a, d[a])
                      [] OTHER -> RunningService(d[a])]
        /\ hist_captured = [a \in arns |->
                    IF /\ past[a] = "stopped"
                       /\ \E i \in DOMAIN StopCalls(config, a, d[a]) :
                            /\ StopCalls(config, a, d[a])[i].op = "tag_resource"
                            /\ StopCalls(config, a, d[a])[i].ok
                    THEN {d[a]} ELSE {}]
        /\ hist_running = [a \in arns |->
                    [count  |-> IF d[a] > 0 THEN {d[a]} ELSE {},
                     all_ok |-> past[a] \in {"stopped", "mistagged"} =>
                                    \A i \in DOMAIN StopCalls(config, a, d[a]) :
                                        StopCalls(config, a, d[a])[i].ok]]
    /\ gen = IdleGenerator
    /\ results = <<>>
    /\ calls = <<>>
    /\ logs = <<>>
    /\ ecs_clusters = <<Cluster("cluster1", TRUE)>>
    /\ disc = IdleDiscovery
    /\ HelpersIdle

\* Spec: one invocation (one generator, consumed to its end) over three
\* services, each running or stopped by an earlier invocation, batches of
\* every length and order.
BatchConfigs ==
    {[started_tags |-> <<Tag("prov", "state", <<"u", "p">>)>>,
      stopped_tags |-> <<Tag("canon", "why", <<"o", "#">>)>>],
     [started_tags |-> <<>>, stopped_tags |-> <<>>]}

Init == InitWith(Services, {1, MaxCount}, BatchConfigs,
                 {"running", "stopped", "mistagged"})

Next ==
    \/ (gen.mode = "none" /\ stop_instances)
    \/ (gen.mode = "none" /\ start_instances)
    \/ stop_instances_next
    \/ start_instances_next
    \/ GeneratorExhausted

Spec == Init /\ [][Next]_vars

\* SpecCycle: any sequence of invocations over one service, for every desired
\* count up to MaxCount.
CycleConfigs ==
    BatchConfigs \cup
    {[started_tags |-> <<Tag("canon", "state", <<"u", "p">>)>>,
      stopped_tags |-> <<Tag("prov", "state", <<"o", "#">>),
                         Tag("prov", "why", <<"u", "p">>)>>]}

InitCycle == InitWith({"svc1"}, 0..MaxCount, CycleConfigs, {"running"})

NextCycle ==
    \/ stop_instances
    \/ start_instances
    \/ stop_instances_next
    \/ start_instances_next
    \/ GeneratorExhausted

SpecCycle == InitCycle /\ [][NextCycle]_vars

\* SpecDelta: one invocation over one service, for every pair of configured
\* tag sets of up to MaxTags records each.  The records of one list have one
\* shape; the keys include the key of the synthesized tag.
ConfigKeys == {"state", "why", CaptureKey}

TagSets ==
    UNION {{[i \in 1..n |-> Tag(shape, ks[i], <<"o", "#">>)] :
                ks \in [1..n -> ConfigKeys], shape \in {"canon", "prov"}} :
            n \in 0..MaxTags}

DeltaConfigs == [started_tags : TagSets, stopped_tags : TagSets]

InitDelta == InitWith({"svc1"}, {MaxCount}, DeltaConfigs, {"running", "stopped"})

SpecDelta == InitDelta /\ [][Next]_vars

\* SpecDisc: runs of get_schedulable_instances over every inventory of up to
\* three clusters, tagged or not, and three services, tagged or not, spread
\* over the clusters in every way.
ClusterOrder == <<"cluster1", "cluster2", "cluster3">>

InitDisc ==
    /\ \E n \in 1..Len(ClusterOrder) :
       \E tagged \in SUBSET (1..n) :
            ecs_clusters = [i \in 1..n |-> Cluster(ClusterOrder[i], i \in tagged)]
    /\ \E where \in [Services -> {ecs_clusters[i].clusterArn : i \in DOMAIN ecs_clusters}] :
       \E tagged \in SUBSET Services :
            svc = [a \in Services |->
                    [clusterArn |-> where[a], desiredCount |-> 1,
                     tags |-> IF a \in tagged THEN ScheduleTags ELSE EmptyTags]]
    /\ config = [started_tags |-> <<>>, stopped_tags |-> <<>>]
    /\ gen = IdleGenerator
    /\ results = <<>>
    /\ calls = <<>>
    /\ logs = <<>>
    /\ hist_captured = [a \in Services |-> {}]
    /\ hist_running = [a \in Services |-> [count |-> {1}, all_ok |-> TRUE]]
    /\ disc = IdleDiscovery
    /\ HelpersIdle

NextDisc ==
    \/ get_schedulable_instances
    \/ get_schedulable_ecs_clusters
    \/ _validate_cluster_tag_values
    \/ get_schedulable_ecs_services
    \/ _validate_service_tag_values
    \/ get_all_services_list
    \/ get_all_services_describe

SpecDisc == InitDisc /\ [][NextDisc]_vars

\* the generators and discovery at rest, for the specifications of the helpers
TransitionsIdle ==
    /\ svc = [a \in {"svc1"} |-> RunningService(1)]
    /\ config = [started_tags |-> <<>>, stopped_tags |-> <<>>]
    /\ gen = IdleGenerator
    /\ results = <<>>
    /\ calls = <<>>
    /\ logs = <<>>
    /\ hist_captured = [a \in {"svc1"} |-> {}]
    /\ hist_running = [a \in {"svc1"} |-> [count |-> {1}, all_ok |-> TRUE]]

DiscoveryIdle ==
    /\ ecs_clusters = <<Cluster("cluster1", TRUE)>>
    /\ disc = IdleDiscovery

\* SpecValidate: _validate_ecs_tag_values called on every list of up to
\* MaxTags records, in either shape, whose values are the strings of up to
\* MaxValueLen characters over a letter, a newline and a character outside
\* the allowed set; then called again on what it returned.
ValueChars == {"a", "\n", "#"}

MaxValueLen == 2

Values == UNION {[1..n -> ValueChars] : n \in 0..MaxValueLen}

\* the list of the records of one shape that hold the values vs
ValidateInput(shape, vs) == [i \in DOMAIN vs |-> Tag(shape, "state", vs[i])]

InitValidate ==
    /\ \E n \in 0..MaxTags, shape \in {"canon", "prov"} :
       \E vs \in [1..n -> Values] :
            validate_call = [IdleValidate EXCEPT !.arg = ValidateInput(shape, vs),
                                                 !.tags = ValidateInput(shape, vs)]
    /\ window_call = IdleWindow
    /\ tag_cache = IdleTagCache
    /\ TransitionsIdle
    /\ DiscoveryIdle

NextValidate ==
    \/ validate_ecs_tag_values_call
    \/ validate_ecs_tag_values_again

SpecValidate == InitValidate /\ [][NextValidate]_vars

\* SpecWindow: build_schedule_from_maintenance_window called on the window
\* strings ddd:hh:mm-ddd:hh:mm of every pair of weekdays and every pair of
\* the times below, and on two strings that lack a delimiter.
WindowTimes == {0, 30, 12 * 60, 23 * 60 + 30, 23 * 60 + 59}

\* hh:mm of a minute of the day
TimeString(m) ==
    <<Digits[((m \div 60) \div 10) + 1], Digits[((m \div 60) % 10) + 1], ":",
      Digits[((m % 60) \div 10) + 1], Digits[((m % 60) % 10) + 1]>>

WindowString(g) ==
    DayNames[g.start_day + 1] \o <<":">> \o TimeString(g.start_time) \o <<"-">>
        \o DayNames[g.stop_day + 1] \o <<":">> \o TimeString(g.stop_time)

MalformedWindows ==
    {DayNames[1] \o <<":">> \o TimeString(30),
     DayNames[1] \o <<"-">> \o DayNames[2] \o <<":">> \o TimeString(30)}

InitWindow ==
    /\ \/ \E g \in [well_formed : {TRUE}, start_day : 0..6, start_time : WindowTimes,
                    stop_day : 0..6, stop_time : WindowTimes] :
            window_call = [IdleWindow EXCEPT !.given = g, !.period_str = WindowString(g)]
       \/ \E s \in MalformedWindows :
            window_call = [IdleWindow EXCEPT !.period_str = s]
    /\ validate_call = IdleValidate
    /\ tag_cache = IdleTagCache
    /\ TransitionsIdle
    /\ DiscoveryIdle

NextWindow == build_schedule_from_maintenance_window

SpecWindow == InitWindow /\ [][NextWindow]_vars

\* SpecCache: up to MaxInvocations invocations on one object, the property
\* read up to MaxReads times in each, the tag-search API paging as it likes.
InitCache ==
    /\ tag_cache = IdleTagCache
    /\ validate_call = IdleValidate
    /\ window_call = IdleWindow
    /\ TransitionsIdle
    /\ DiscoveryIdle

NextCache ==
    \/ _init_scheduler
    \/ rds_resource_tags
    \/ get_resources

SpecCache == InitCache /\ [][NextCache]_vars

-----------------------------------------------------------------------------
(* Observations on the current generator, used by the properties below *)

\* the state a generator of the given mode yields
YieldedState(mode) == IF mode = "stop" THEN STATE_STOPPED ELSE STATE_RUNNING

\* the position in the batch of the resource a call names
BatchIndex(arn) == CHOOSE i \in DOMAIN gen.batch : gen.batch[i].arn = arn

\* the positions in calls of the calls that name the i-th resource
CallsFor(i) == {p \in DOMAIN calls : calls[p].arn = gen.batch[i].arn}

\* processing the k-th resource ended in the except clause around the loop
RaisedAt(k) ==
    \E l \in DOMAIN logs : logs[l].level = "error" /\ logs[l].id = gen.batch[k].arn

\* a tagging call for the i-th resource raised
TaggingRaisedAt(i) ==
    \E p \in CallsFor(i) :
        calls[p].op \in {"untag_resource", "tag_resource"} /\ ~calls[p].ok

-----------------------------------------------------------------------------
(* C1: when processing the k-th resource of a batch raises, the results are *)
(* exactly those of resources 1..k-1 in input order, and no call is issued  *)
(* for any of the resources k+1..n.                                         *)
C1_FailFast ==
    \A k \in DOMAIN gen.batch :
        RaisedAt(k) =>
            /\ results = [i \in 1..(k - 1) |->
                            <<gen.batch[i].id, YieldedState(gen.mode)>>]
            /\ \A j \in (k + 1)..Len(gen.batch) : CallsFor(j) = {}

\* the resize of resource 2 of 3 has raised
C1_Witness ==
    /\ Len(gen.batch) = 3
    /\ RaisedAt(2)
    /\ \E p \in CallsFor(2) : calls[p].op = "update_service" /\ ~calls[p].ok
    /\ Len(results) = 1

(* C3: a batch that ends without the except clause around the loop has     *)
(* yielded one (id, Stopped) or (id, Running) per input resource, in input *)
(* order; before the end it has yielded those of the resources processed.  *)
C3_ResultShape ==
    /\ results = [i \in 1..Len(results) |->
                    <<gen.batch[i].id, YieldedState(gen.mode)>>]
    /\ Len(results) <= Len(gen.batch)
    /\ (gen.done /\ \A k \in DOMAIN gen.batch : ~RaisedAt(k))
            => Len(results) = Len(gen.batch)

\* a start batch of three resources, consumed to the end, nothing raised
C3_Witness ==
    /\ gen.mode = "start"
    /\ gen.done
    /\ Len(gen.batch) = 3
    /\ Len(results) = 3
    /\ logs = <<>>

(* C4: when an untag_resource or tag_resource call for a resource raises,  *)
(* a warning naming the resource is logged, its result is yielded all the  *)
(* same, the provider keeps the desired count of the resize, and the loop  *)
(* goes on to the next resource instead of entering its except clause.     *)
C4_TaggingNonFatal ==
    \A i \in DOMAIN gen.batch :
        TaggingRaisedAt(i) =>
            /\ \E l \in DOMAIN logs :
                    logs[l].level = "warning" /\ logs[l].id = gen.batch[i].id
            /\ i <= Len(results)
            /\ results[i] = <<gen.batch[i].id, YieldedState(gen.mode)>>
            /\ \E p \in CallsFor(i) :
                    /\ calls[p].op = "update_service"
                    /\ calls[p].ok
                    /\ svc[gen.batch[i].arn].desiredCount = calls[p].count
            /\ ~RaisedAt(i)
            /\ gen.idx > i

\* the tagging of resource 1 raised and resource 2 was processed after it
C4_Witness ==
    /\ Len(gen.batch) >= 2
    /\ TaggingRaisedAt(1)
    /\ CallsFor(2) # {}
    /\ Len(results) >= 2

(* C5: in the sequence of calls of a batch, the calls of resource i all    *)
(* come before those of resource i+1; the first call for a resource is its *)
(* one resize, and an untag or tag call is issued only after that resize   *)
(* has succeeded.                                                          *)
C5_CallOrder ==
    /\ \A p, q \in DOMAIN calls :
            p < q => BatchIndex(calls[p].arn) <= BatchIndex(calls[q].arn)
    /\ \A p \in DOMAIN calls : \E i \in DOMAIN gen.batch : p \in CallsFor(i)
    /\ \A i \in DOMAIN gen.batch :
        /\ Cardinality({p \in CallsFor(i) : calls[p].op = "update_service"}) <= 1
        /\ \A q \in CallsFor(i) :
                calls[q].op \in {"untag_resource", "tag_resource"} =>
                    \E p \in CallsFor(i) :
                        p < q /\ calls[p].op = "update_service" /\ calls[p].ok

\* two resources resized and tagged one after the other
C5_Witness ==
    /\ Len(gen.batch) >= 2
    /\ \E p \in CallsFor(1) : calls[p].op = "tag_resource"
    /\ \E p \in CallsFor(1) : calls[p].op = "untag_resource"
    /\ \E p \in CallsFor(2) : calls[p].op = "tag_resource"

(* C2: a stop of a snapshot with desired count N resizes to 0 and then, if *)
(* it gets as far as the tag call, passes the captured-desired-count tag   *)
(* with the decimal digits of N; and when the provider accepted that call, *)
(* the next start of the service, from a snapshot taken after the stop,    *)
(* issues a resize to N.                                                   *)
C2_StopCaptures ==
    gen.mode = "stop" =>
        \A i \in DOMAIN gen.batch : \A q \in CallsFor(i) :
            calls[q].op = "tag_resource" =>
                /\ \E p \in CallsFor(i) :
                        /\ p < q
                        /\ calls[p].op = "update_service"
                        /\ calls[p].count = 0
                /\ \E t \in DOMAIN calls[q].tags :
                        /\ calls[q].tags[t].key = CaptureKey
                        /\ calls[q].tags[t].value = StrOfNat(gen.batch[i].desired_count)
                        /\ IsIntLiteral(calls[q].tags[t].value)
                        /\ IntOfStr(calls[q].tags[t].value) = gen.batch[i].desired_count

C2_StartRestores ==
    \A a \in DOMAIN svc : \A n \in 0..MaxCount :
        ( /\ gen.mode = "start"
          /\ ~gen.done
          /\ gen.idx <= Len(gen.batch)
          /\ gen.batch[gen.idx].arn = a
          /\ hist_captured[a] = {n} )
        => /\ Len(calls') > Len(calls)
           /\ calls'[Len(calls) + 1].op = "update_service"
           /\ calls'[Len(calls) + 1].arn = a
           /\ calls'[Len(calls) + 1].count = n

C2_RoundTrip == []C2_StopCaptures /\ [][C2_StartRestores]_vars

\* a start has resized the service back to the two-digit count 10
C2_Witness ==
    /\ gen.mode = "start"
    /\ \E p \in DOMAIN calls :
            /\ calls[p].op = "update_service"
            /\ calls[p].ok
            /\ calls[p].count = 10
            /\ svc[calls[p].arn].desiredCount = 10

-----------------------------------------------------------------------------
(* The configured key sets, for C9 and C10 *)

StartedKeys == Range(KeyNames(config.started_tags))

StoppedKeys == Range(KeyNames(config.stopped_tags))

UntagCallsFor(i) == {p \in CallsFor(i) : calls[p].op = "untag_resource"}

TagCallsFor(i) == {p \in CallsFor(i) : calls[p].op = "tag_resource"}

\* no call is issued with nothing to remove or nothing to apply
NoEmptyTaggingCall ==
    \A p \in DOMAIN calls :
        /\ calls[p].op = "untag_resource" => Len(calls[p].keys) > 0
        /\ calls[p].op = "tag_resource" => Len(calls[p].tags) > 0

(* C9: a stop transition removes exactly the keys of the started set that  *)
(* are neither in the stopped set nor the synthesized key, in one call     *)
(* that is left out when there is no such key; then, unless that call      *)
(* raised, it applies in one call the stopped set (its values as           *)
(* configured or validated) followed by the synthesized tag holding the    *)
(* digits of the snapshot's desired count.                                 *)
C9_StopDelta ==
    gen.mode = "stop" =>
        /\ NoEmptyTaggingCall
        /\ \A i \in 1..Len(results) :
            LET remove == StartedKeys \ (StoppedKeys \cup {CaptureKey})
            IN  /\ Cardinality(UntagCallsFor(i)) = (IF remove = {} THEN 0 ELSE 1)
                /\ \A p \in UntagCallsFor(i) : Range(calls[p].keys) = remove
                /\ Cardinality(TagCallsFor(i)) =
                        (IF \E p \in UntagCallsFor(i) : ~calls[p].ok THEN 0 ELSE 1)
                /\ \A q \in TagCallsFor(i) :
                    /\ \A p \in UntagCallsFor(i) : p < q
                    /\ KeyNames(calls[q].tags) =
                            KeyNames(config.stopped_tags) \o <<CaptureKey>>
                    /\ calls[q].tags[Len(calls[q].tags)].value =
                            StrOfNat(gen.batch[i].desired_count)
                    /\ \A t \in DOMAIN config.stopped_tags :
                            calls[q].tags[t].value \in
                                {config.stopped_tags[t].value,
                                 Sanitize(config.stopped_tags[t].value)}
                    /\ \A t \in DOMAIN calls[q].tags : calls[q].tags[t].shape = "canon"

\* a stop that removed one started key and kept another, which the stopped
\* set has too, and then applied the stop tags
C9_Witness ==
    /\ gen.mode = "stop"
    /\ Len(results) = 1
    /\ \E p \in UntagCallsFor(1) :
            calls[p].ok /\ Range(calls[p].keys) # StartedKeys
    /\ \E q \in TagCallsFor(1) : calls[q].ok /\ Len(calls[q].tags) = 2

(* C10: a start transition removes exactly the keys of the stopped set     *)
(* that are not in the started set, in one call that is left out when      *)
(* there is no such key; then, unless that call raised, it applies the     *)
(* started set in one call that is left out when the started set is empty. *)
C10_StartDelta ==
    gen.mode = "start" =>
        /\ NoEmptyTaggingCall
        /\ \A i \in 1..Len(results) :
            LET remove == StoppedKeys \ StartedKeys
            IN  /\ Cardinality(UntagCallsFor(i)) = (IF remove = {} THEN 0 ELSE 1)
                /\ \A p \in UntagCallsFor(i) : Range(calls[p].keys) = remove
                /\ Cardinality(TagCallsFor(i)) =
                        (IF \/ \E p \in UntagCallsFor(i) : ~calls[p].ok
                            \/ config.started_tags = <<>>
                         THEN 0 ELSE 1)
                /\ \A q \in TagCallsFor(i) :
                    /\ \A p \in UntagCallsFor(i) : p < q
                    /\ KeyNames(calls[q].tags) = KeyNames(config.started_tags)
                    /\ \A t \in DOMAIN config.started_tags :
                            calls[q].tags[t].value \in
                                {config.started_tags[t].value,
                                 Sanitize(config.started_tags[t].value)}
                    /\ \A t \in DOMAIN calls[q].tags : calls[q].tags[t].shape = "canon"

\* a start that removed a stop-only key and applied a started set that
\* shares another key with the stopped set
C10_Witness ==
    /\ gen.mode = "start"
    /\ Len(results) = 1
    /\ \E p \in UntagCallsFor(1) :
            calls[p].ok /\ Range(calls[p].keys) # StoppedKeys
    /\ \E q \in TagCallsFor(1) : calls[q].ok

\* a start with an empty started set: keys removed, nothing applied
C10_WitnessNoApply ==
    /\ gen.mode = "start"
    /\ Len(results) = 1
    /\ UntagCallsFor(1) # {}
    /\ TagCallsFor(1) = {}
    /\ logs = <<>>

-----------------------------------------------------------------------------
(* Observations on discovery *)

ClusterOf(a) == svc[a].clusterArn

ClusterTagged(c) ==
    \E i \in DOMAIN ecs_clusters :
        ecs_clusters[i].clusterArn = c /\ TagName \in DOMAIN ecs_clusters[i].tags

ServiceTagged(a) == TagName \in DOMAIN svc[a].tags

\* the positions of service a in the list get_schedulable_instances returned
ReturnedAt(a) == {i \in DOMAIN disc.services : disc.services[i].id = a}

(* C6: discovery returns every service, with forceStop true iff neither    *)
(* the service nor its cluster carries the schedule tag: a service of a    *)
(* tagged cluster unflagged whatever its own tags, a tagged service of an  *)
(* untagged cluster unflagged, an untagged service of an untagged cluster  *)
(* returned all the same, flagged.                                         *)
C6_Classification ==
    disc.pc = "returned" =>
        \A a \in DOMAIN svc :
            \E i \in ReturnedAt(a) :
                disc.services[i].force_stop
                    = (~ServiceTagged(a) /\ ~ClusterTagged(ClusterOf(a)))

\* The flag of the services that are returned is the one C6 names.
ReturnedFlags ==
    \A i \in DOMAIN disc.services :
        disc.services[i].force_stop
            = (~ServiceTagged(disc.services[i].id)
                /\ ~ClusterTagged(ClusterOf(disc.services[i].id)))

(* C7: for every inventory, with any number of tagged and untagged         *)
(* clusters, discovery returns every service of every cluster exactly once.*)
C7_Completeness ==
    disc.pc = "returned" =>
        \A a \in DOMAIN svc : Cardinality(ReturnedAt(a)) = 1

\* every service returned at most once, and only services of the inventory
ReturnedOnce ==
    \A i, j \in DOMAIN disc.services :
        /\ disc.services[i].id \in DOMAIN svc
        /\ disc.services[i].id = disc.services[j].id => i = j

-----------------------------------------------------------------------------
\* the items of a sequence of responses, in page order
RECURSIVE PageItems(_)
PageItems(resps) ==
    IF resps = <<>> THEN <<>> ELSE Head(resps).items \o PageItems(Tail(resps))

LastResponse == disc.pages.resps[Len(disc.pages.resps)]

(* C8: a loop requests a further page exactly while the latest response    *)
(* carried a token and is left at the first response without one; what it  *)
(* has accumulated is the concatenation, in page order, of the items of    *)
(* the pages received (for a describe loop, of what it selects from them), *)
(* and a list loop that has ended has accumulated all there was to list.   *)
C8_Pagination ==
    LET resps == disc.pages.resps
        kind  == disc.pages.kind
        items == PageItems(resps)
        tagged(c) == ClusterTagged(c)
        untagged(c) == ~ClusterTagged(c)
    IN  resps # <<>> =>
        /\ \A i \in 1..(Len(resps) - 1) : resps[i].token
        /\ LastResponse.token => disc.pc \in {kind, "raised"}
        /\ ~LastResponse.token => disc.pc # kind
        /\ kind = "list_clusters" =>
            /\ disc.clusters = items
            /\ ~LastResponse.token =>
                    items = [i \in DOMAIN ecs_clusters |-> ecs_clusters[i].clusterArn]
        /\ kind = "describe_clusters" =>
            /\ disc.mixed_clusters.clusters_with_schedule = SelectSeq(items, tagged)
            /\ disc.mixed_clusters.clusters_without_schedule = SelectSeq(items, untagged)
        /\ kind = "list_services" =>
            /\ disc.service_arns = items
            /\ ~LastResponse.token => items = ListedServices(disc.cluster)
        /\ kind = "describe_services" =>
            [i \in DOMAIN disc.all_services |-> disc.all_services[i].id] = items

\* a list_services loop left after three responses, the first two with a
\* token, with the three services of the cluster accumulated
C8_Witness ==
    /\ disc.pages.kind = "list_services"
    /\ Len(disc.pages.resps) = 3
    /\ ~LastResponse.token
    /\ disc.pc = "describe_services"
    /\ Len(disc.service_arns) = 3

-----------------------------------------------------------------------------
\* a character a validated tag value may hold
ValidValueChar(c) == c \in AllowedChars /\ c # "\n"

ValidValue(v) == \A i \in DOMAIN v : ValidValueChar(v[i])

(* C11: every tag value passed to tag_resource by a stop or start          *)
(* transition holds only letters, digits, whitespace and _ . : + / = \ @ - *)
(* and no newline, whichever shape the configured records have.            *)
C11_TagValueChars ==
    \A p \in DOMAIN calls :
        calls[p].op = "tag_resource" =>
            \A t \in DOMAIN calls[p].tags : ValidValue(calls[p].tags[t].value)

\* The values of the records configured in canonical shape are valid when
\* they reach tag_resource, and so is the synthesized one.
CanonicalValuesValid ==
    \A i \in 1..Len(results) : \A q \in TagCallsFor(i) :
        LET configured == IF gen.mode = "stop" THEN config.stopped_tags
                          ELSE config.started_tags
        IN  /\ \A t \in DOMAIN configured :
                    configured[t].shape = "canon" => ValidValue(calls[q].tags[t].value)
            /\ gen.mode = "stop" => ValidValue(calls[q].tags[Len(calls[q].tags)].value)

-----------------------------------------------------------------------------
(* C12: validating the result of a validation returns it unchanged,        *)
(* validating a list whose values are all valid returns an equal list, and *)
(* the list the caller passed holds after the call what it held before.    *)
C12_Idempotent ==
    /\ validate_call.pc = "revalidated" =>
            validate_call.again = validate_call.result
    /\ validate_call.pc # "idle" =>
            ((\A i \in DOMAIN validate_call.arg : ValidValue(validate_call.arg[i].value))
                => validate_call.result = validate_call.arg)
    /\ validate_call.tags = validate_call.arg

\* a list of two records whose values both changed, validated twice
C12_Witness ==
    /\ validate_call.pc = "revalidated"
    /\ Len(validate_call.arg) = 2
    /\ validate_call.warnings = 2
    /\ validate_call.result # validate_call.arg
    /\ \E i \in DOMAIN validate_call.arg :
            "\n" \in Range(validate_call.arg[i].value)

-----------------------------------------------------------------------------
(* Observations on a maintenance-derived schedule *)

TimeOfDay(m) == [hour |-> m \div 60, minute |-> m % 60]

MinuteOfDay(t) == 60 * t.hour + t.minute

\* a period without its name
PeriodSpan(p) == [begintime |-> p.begintime, endtime |-> p.endtime, weekdays |-> p.weekdays]

Span(begin, end, day) ==
    [begintime |-> TimeOfDay(begin), endtime |-> TimeOfDay(end), weekdays |-> {day}]

(* C13: for a window string with equal start and stop weekday the schedule *)
(* has exactly one Period [startTime, stopTime] on that weekday, also when *)
(* startTime >= stopTime; with differing weekdays it has exactly two,      *)
(* [startTime, 23:59] on the start day followed by [00:00, stopTime] on    *)
(* the stop day; its timezone is UTC and it is enforced.                   *)
C13_PeriodStructure ==
    LET g == window_call.given
        periods == window_call.schedule.periods
    IN  /\ g.well_formed => window_call.pc # "raised"
        /\ (window_call.pc = "returned" /\ g.well_formed) =>
            /\ window_call.schedule.timezone = "UTC"
            /\ window_call.schedule.enforced
            /\ [i \in DOMAIN periods |-> PeriodSpan(periods[i])] =
                    IF g.start_day = g.stop_day
                    THEN <<Span(g.start_time, g.stop_time, g.start_day)>>
                    ELSE <<Span(g.start_time, 23 * 60 + 59, g.start_day),
                           Span(0, g.stop_time, g.stop_day)>>

\* sun:23:30-mon:00:30 was given and two periods were returned
C13_Witness ==
    /\ window_call.pc = "returned"
    /\ window_call.given.start_day = 6
    /\ window_call.given.stop_day = 0
    /\ window_call.given.start_time = 23 * 60 + 30
    /\ Len(window_call.schedule.periods) = 2
    /\ window_call.schedule.periods[2].begintime = TimeOfDay(0)

\* a window of one day whose start time is after its stop time, accepted
C13_WitnessInverted ==
    /\ window_call.pc = "returned"
    /\ window_call.given.start_day = window_call.given.stop_day
    /\ window_call.given.start_time > window_call.given.stop_time
    /\ Len(window_call.schedule.periods) = 1

MinutesPerDay == 24 * 60

\* The minutes of the week (0 = Monday 00:00) a period covers: on each of
\* its weekdays, those from its begin time to its end time, both included.
Covered(p) ==
    {d * MinutesPerDay + m :
        d \in p.weekdays, m \in MinuteOfDay(p.begintime)..MinuteOfDay(p.endtime)}

\* The minutes of the week from (startDay, startTime) to (stopDay,
\* stopTime), both included, running on into the next week when the stop
\* day is earlier in the week than the start day.  A window of one day whose
\* stop time is before its start time is taken as written: no minute.
SourceInterval(g) ==
    LET a == g.start_day * MinutesPerDay + g.start_time
        b == g.stop_day * MinutesPerDay + g.stop_time
    IN  IF g.start_day = g.stop_day \/ a <= b THEN a..b
        ELSE (a..(7 * MinutesPerDay - 1)) \cup (0..b)

(* C14: the Periods of a maintenance-derived Schedule cover no minute of   *)
(* the week twice, and the minutes they cover are exactly those from       *)
(* (startDay, startTime) to (stopDay, stopTime), for every pair of         *)
(* weekdays and times.                                                     *)
C14_Coverage ==
    LET g == window_call.given
        periods == window_call.schedule.periods
    IN  (window_call.pc = "returned" /\ g.well_formed) =>
            /\ \A i, j \in DOMAIN periods :
                    i # j => Covered(periods[i]) \cap Covered(periods[j]) = {}
            /\ UNION {Covered(periods[i]) : i \in DOMAIN periods} = SourceInterval(g)

\* C14 for the windows that end on the day they start or on the next day
CoverageOfShortWindows ==
    LET g == window_call.given
    IN  (g.stop_day = g.start_day \/ g.stop_day = (g.start_day + 1) % 7) => C14_Coverage

-----------------------------------------------------------------------------
\* the entries of a cache were all fetched in the current invocation
FetchedNow(c) ==
    \A arn \in DOMAIN c.dict :
        /\ TagName \in DOMAIN c.dict[arn]
        /\ c.dict[arn][TagName] = StrOfNat(tag_cache.invocation)

(* C15: within one invocation the pagination of the tag-search API is run  *)
(* at most once however often rds_resource_tags is read; an invocation     *)
(* begins (_init_scheduler) with the cache unpopulated and empty; and no   *)
(* entry cached in an earlier invocation is in the cache, or in what a     *)
(* read returns, in a later one.                                           *)
C15_InvocationScopedCache ==
    /\ tag_cache.runs <= 1
    /\ tag_cache.runs = 0 =>
            /\ tag_cache._instance_tags = NoneCache
            /\ tag_cache.returned = NoneCache
    /\ (tag_cache.reads > 0 /\ tag_cache.pc = "idle") => tag_cache.runs = 1
    /\ FetchedNow(tag_cache._instance_tags)
    /\ FetchedNow(tag_cache.returned)

\* the second read of the second invocation has returned the three
\* resources, fetched once in that invocation
C15_Witness ==
    /\ tag_cache.invocation = 2
    /\ tag_cache.reads = 2
    /\ tag_cache.runs = 1
    /\ Cardinality(DOMAIN tag_cache.returned.dict) = 3
    /\ ~tag_cache.returned.is_none

-----------------------------------------------------------------------------
\* the next() that processes service a in a start batch
StartsNext(a) ==
    /\ gen.mode = "start"
    /\ ~gen.done
    /\ gen.idx <= Len(gen.batch)
    /\ gen.batch[gen.idx].arn = a

C16_StartRestoresLastRunning ==
    \A a \in DOMAIN svc : \A n \in 1..MaxCount :
        ( /\ StartsNext(a)
          /\ hist_running[a] = [count |-> {n}, all_ok |-> TRUE]
          /\ hist_captured[a] # {}
          /\ hist_running'[a].all_ok )
        => /\ Len(calls') > Len(calls)
           /\ calls'[Len(calls) + 1].op = "update_service"
           /\ calls'[Len(calls) + 1].arn = a
           /\ calls'[Len(calls) + 1].count = n

(* C16: in any sequence of stop and start batches over a service, each on  *)
(* a snapshot taken after the batch before and with every call succeeding, *)
(* a start whose latest predecessors are one or more stops resizes the     *)
(* service to the desired count it had when it last ran.                   *)
C16_CapacitySurvives == [][C16_StartRestoresLastRunning]_vars

\* C16 for a start that follows a single stop of the running service
StartAfterOneStopRestores ==
    [][\A a \in DOMAIN svc :
        (hist_captured[a] = hist_running[a].count) => C16_StartRestoresLastRunning]_vars

-----------------------------------------------------------------------------
\* the provider has accepted a tag call for the i-th resource that carries
\* the capture tag holding the snapshot's desired count
CaptureAccepted(i) ==
    \E q \in TagCallsFor(i) :
        /\ calls[q].ok
        /\ \E t \in DOMAIN calls[q].tags :
                /\ calls[q].tags[t].key = CaptureKey
                /\ calls[q].tags[t].value = StrOfNat(gen.batch[i].desired_count)

TaggingWarningFor(i) ==
    \E l \in DOMAIN logs :
        logs[l].level = "warning" /\ logs[l].id = gen.batch[i].id

(* C17: whenever a stop has yielded (id, Stopped) for a resource, either   *)
(* the provider has accepted a tag call carrying the capture tag with the  *)
(* snapshot's desired count, or a tagging warning naming the resource was  *)
(* logged; an untag call is issued before the tag call, and when it raises *)
(* no tag call is issued.                                                  *)
C17_NoSilentLoss ==
    gen.mode = "stop" =>
        \A i \in 1..Len(results) :
            /\ CaptureAccepted(i) \/ TaggingWarningFor(i)
            /\ \A p \in UntagCallsFor(i) :
                /\ \A q \in TagCallsFor(i) : p < q
                /\ ~calls[p].ok => TagCallsFor(i) = {}

\* the untag call of resource 1 raised, so its capture tag was not written,
\* and the tag call of resource 2 raised; both were yielded
C17_Witness ==
    /\ gen.mode = "stop"
    /\ Len(results) >= 2
    /\ \E p \in UntagCallsFor(1) : ~calls[p].ok
    /\ ~CaptureAccepted(1)
    /\ \E q \in TagCallsFor(2) : ~calls[q].ok
    /\ ~CaptureAccepted(2)

(* C18: when the snapshot of the k-th resource of a start batch has no     *)
(* capture tag, or one whose value is no integer, no call is issued for    *)
(* that resource, no result is produced for it, and the resources after it *)
(* are not processed: no call and no result for them either.               *)
C18_NoUsableCapture ==
    gen.mode = "start" =>
        \A k \in DOMAIN gen.batch :
            ~HasUsableCapture(gen.batch[k]) =>
                /\ \A j \in k..Len(gen.batch) : CallsFor(j) = {}
                /\ Len(results) < k
                /\ gen.idx <= k

\* a start batch of three whose second resource has a capture tag that is
\* no integer has ended after the first; another whose second has none
C18_Witness ==
    /\ gen.mode = "start"
    /\ gen.done
    /\ Len(gen.batch) = 3
    /\ CaptureKey \in DOMAIN gen.batch[2].tags
    /\ ~HasUsableCapture(gen.batch[2])
    /\ Len(results) = 1
    /\ RaisedAt(2)

C18_WitnessMissing ==
    /\ gen.mode = "start"
    /\ gen.done
    /\ Len(gen.batch) = 3
    /\ CaptureKey \notin DOMAIN gen.batch[2].tags
    /\ Len(results) = 1
    /\ RaisedAt(2)

-----------------------------------------------------------------------------
\* no call before the first request, and calls for the j-th resource only
\* once the consumer has made its j-th request
C19_NoCallBeforeRequest ==
    /\ gen.nexts = 0 => calls = <<>>
    /\ \A j \in DOMAIN gen.batch : CallsFor(j) # {} => gen.nexts >= j
    /\ Len(results) <= gen.nexts

\* calls are issued only in a step in which the consumer requests a result,
\* and then for the one resource that request has reached
C19_OneResourcePerRequest ==
    Len(calls') > Len(calls) =>
        /\ gen'.nexts = gen.nexts + 1
        /\ gen'.mode = gen.mode
        /\ \A p \in (Len(calls) + 1)..Len(calls') :
                calls'[p].arn = gen.batch[gen'.nexts].arn

(* C19: stop_instances and start_instances issue no call until the         *)
(* consumer requests the first result; the calls for resource i+1 are      *)
(* issued only in the request that follows the i-th result; so a consumer  *)
(* that stops after the i-th result leaves resources i+1..n untouched.     *)
C19_Lazy == []C19_NoCallBeforeRequest /\ [][C19_OneResourcePerRequest]_vars

\* the consumer has taken the first result of a batch of three and the
\* other two resources have had no call
C19_Witness ==
    /\ Len(gen.batch) = 3
    /\ gen.nexts = 1
    /\ Len(results) = 1
    /\ CallsFor(1) # {}
    /\ CallsFor(2) = {}
    /\ CallsFor(3) = {}

\* the generator exists and nothing has been asked of it: no call yet
C19_WitnessCreated ==
    /\ gen.mode = "stop"
    /\ Len(gen.batch) = 3
    /\ gen.nexts = 0
    /\ calls = <<>>

-----------------------------------------------------------------------------
(* C20: a stop or start transition leaves the configured started and       *)
(* stopped tag sets as they were supplied, the keys and the values of      *)
(* their records included.                                                 *)
C20_ConfigUnchanged == [][config' = config]_vars

\* What a transition changes of the configuration is the shape of records:
\* the names and values of the configured tags stay, in their order.
ConfiguredTagsKept ==
    [][/\ NormalizeTags(config'.started_tags) = NormalizeTags(config.started_tags)
       /\ NormalizeTags(config'.stopped_tags) = NormalizeTags(config.stopped_tags)]_vars

-----------------------------------------------------------------------------
\* the next() that processes service a in a stop batch
StopsNext(a) ==
    /\ gen.mode = "stop"
    /\ ~gen.done
    /\ gen.idx <= Len(gen.batch)
    /\ gen.batch[gen.idx].arn = a

\* the step has yielded a result for a and no call naming a has ever raised
TransitionedCleanly(a) ==
    /\ Len(results') = Len(results) + 1
    /\ hist_running'[a].all_ok

\* the keys the stop transition applies: the stopped set and the synthesized key
AppliedByStop == StoppedKeys \cup {CaptureKey}

\* A start that follows a stop, both with every call succeeding, leaves on
\* the resource no key the stop applied, unless the started set has it too.
C21_StartLeavesNoStopKey ==
    \A a \in DOMAIN svc :
        (StartsNext(a) /\ hist_captured[a] # {} /\ hist_running[a].all_ok
            /\ TransitionedCleanly(a))
        => DOMAIN svc'[a].tags \cap (AppliedByStop \ StartedKeys) = {}

\* A stop with every call succeeding leaves on the resource no key that
\* only the start transition applies.
C21_StopLeavesNoStartKey ==
    \A a \in DOMAIN svc :
        (StopsNext(a) /\ hist_running[a].all_ok /\ TransitionedCleanly(a))
        => DOMAIN svc'[a].tags \cap (StartedKeys \ AppliedByStop) = {}

(* C21: after a stop followed by a start of a resource, every tagging call *)
(* succeeding, the resource carries no key the stop applied, the           *)
(* synthesized captured-desired-count key included, unless the started set *)
(* has that key too; and after a stop it carries no key that only the      *)
(* start applies.                                                          *)
C21_NoStaleTags ==
    [][C21_StartLeavesNoStopKey /\ C21_StopLeavesNoStartKey]_vars

\* C21 for the keys of the configured stopped set: the start removes them
ConfiguredStopKeysRemoved ==
    [][\A a \in DOMAIN svc :
        (StartsNext(a) /\ hist_captured[a] # {} /\ hist_running[a].all_ok
            /\ TransitionedCleanly(a))
        => DOMAIN svc'[a].tags \cap (StoppedKeys \ StartedKeys) = {}]_vars

\* C21 for the stop: it removes the keys only the start applies
StartOnlyKeysRemoved == [][C21_StopLeavesNoStartKey]_vars

-----------------------------------------------------------------------------
\* the clusters in the order get_schedulable_instances visits them
VisitOrder ==
    disc.mixed_clusters.clusters_without_schedule
        \o disc.mixed_clusters.clusters_with_schedule

\* Every loop of the run has ended on a response without a token: all the
\* clusters were listed and described, and the services of the last cluster
\* to visit were listed and described.
RanToTheEnd ==
    /\ disc.clusters = [i \in DOMAIN ecs_clusters |-> ecs_clusters[i].clusterArn]
    /\ Range(VisitOrder) = Range(disc.clusters)
    /\ disc.todo = <<>>
    /\ disc.via = "tagged"
    /\ disc.cluster = VisitOrder[Len(VisitOrder)]
    /\ disc.pages.kind = "describe_services"
    /\ ~LastResponse.token
    /\ disc.pending = <<>>
    /\ disc.service_arns = ListedServices(disc.cluster)

\* discovery has issued list and describe calls only, and a run returns an
\* inventory only when no call of it has raised
C22_OnlyReads ==
    /\ calls = <<>>
    /\ disc.pages.kind \in LoopKinds \cup {"none"}
    /\ disc.pc = "returned" => RanToTheEnd

\* a step of discovery changes nothing at the provider, and a run in which
\* a call has raised stays raised until the caller starts another run
C22_RaisePropagates ==
    /\ svc' = svc
    /\ ecs_clusters' = ecs_clusters
    /\ config' = config
    /\ disc.pc = "raised" => disc'.pc \in {"raised", "list_clusters"}
    /\ disc'.pc = "raised" => disc.pc \in LoopKinds \cup {"raised"}

(* C22: get_schedulable_instances issues only list and describe calls,     *)
(* never a resize, tag or untag; and when a list or describe call raises   *)
(* the run ends with the exception at the caller: no inventory, partial or *)
(* not, is returned by it.                                                 *)
C22_ReadOnlyDiscovery == []C22_OnlyReads /\ [][C22_RaisePropagates]_vars

\* a call has raised after the services of one cluster were gathered and
\* while those of another were being listed
C22_Witness ==
    /\ disc.pc = "raised"
    /\ Len(disc.services) >= 1
    /\ disc.via = "tagged"
    /\ disc.pages.kind = "list_services"
    /\ LastResponse.token

====
